---- MODULE Spec2Model ----
(***************************************************************************)
(* URScript generation for bitmap-driven tufting jobs                      *)
(* (backend/app/ur_generator.py, backend/app/api.py,                       *)
(* backend/app/config.py, backend/app/robot_client.py).                    *)
(*                                                                         *)
(* Numbers.  Python floats are modelled in fixed point:                    *)
(*   - heights, workpiece sizes and speeds are whole millimetres (per      *)
(*     second) in the options, as in the defaults of the source;           *)
(*   - XY positions and Z heights are micrometres (mm * 1000), a division  *)
(*     that is not exact is floored;                                       *)
(*   - a value printed with ":.4f" after "/ 1000" is an integer count of   *)
(*     1e-4 units (Fmt4), rounded half to even as Python's format does;    *)
(*   - distances are in 0.1 mm, the hypotenuse is floored to that unit.    *)
(* An optional value (None or a value) is a sequence of length 0 or 1.     *)
(* A script line is a record: the instruction (op), its indentation (ind), *)
(* its literal text argument (txt) and its numeric arguments (args).       *)
(***************************************************************************)
EXTENDS Integers, Sequences, FiniteSets, TLC

\* ------------------------------------------------------------------ bounds
\* Largest number of pixels (width * height) of an uploaded image.
MaxPixels == 6
\* Largest number of pixels of an image in the repeated-invocation runs.
RepMaxPixels == 2
\* Largest number of invocations of generate_ur_program in one behaviour.
MaxCalls == 3

\* --------------------------------------------------------------- constants
MOVE_ACCELERATION == 12
APPROACH_ACCELERATION == 8
CONTACT_STEP_METERS == 10
\* RAD_ORIENTATION printed with ":.4f": 0.0000, 3.1416, 0.0000
RAD_ORIENTATION == <<0, 31416, 0>>

None == <<>>
Some(v) == <<v>>

\* URGenerationOptions(): the field defaults of the dataclass.
DEFAULT_OPTIONS ==
    [ workpiece_width_mm |-> 500,
      workpiece_height_mm |-> 500,
      safe_height_mm |-> 150,
      tuft_height_mm |-> 5,
      tool_output |-> 0,
      travel_speed_mm_per_sec |-> 200,
      tuft_speed_mm_per_sec |-> 60,
      black_pixel_threshold |-> 64,
      contact_force_threshold_n |-> 1500 ]

\* ------------------------------------------------------------------ inputs
\* Greyscale bytes used in the grids: 0 (the lower clamp of the threshold)
\* and 65 (one above the default threshold).
PixelValues == {0, 65}

\* Option values a caller passes.  They cover a threshold below the clamp
\* range, on a pixel value and between pixel values, both failing height
\* orders, zero speeds, and another tool channel and workpiece.
BaseOptions ==
    [DEFAULT_OPTIONS EXCEPT !.workpiece_width_mm = 600,
                            !.workpiece_height_mm = 1200]

OptionsSet ==
    { BaseOptions,
      [BaseOptions EXCEPT !.black_pixel_threshold = -1, !.tool_output = 3],
      [BaseOptions EXCEPT !.black_pixel_threshold = 65,
                          !.travel_speed_mm_per_sec = 0],
      [BaseOptions EXCEPT !.tuft_speed_mm_per_sec = 0,
                          !.contact_force_threshold_n = 10],
      [BaseOptions EXCEPT !.tuft_height_mm = 0],
      [BaseOptions EXCEPT !.safe_height_mm = 5],
      [BaseOptions EXCEPT !.safe_height_mm = 5, !.tuft_height_mm = 150] }

OptionInputs == {None} \cup { Some(o) : o \in OptionsSet }

Names == {"a.png"}

\* Decoded images of at most n pixels: width x height row-major bytes.  A
\* zero dimension gives the empty grid.
Grids(n) ==
    UNION { { [width |-> w, height |-> h, data |-> d] :
                d \in [1..(w * h) -> PixelValues] } :
            <<w, h>> \in { wh \in (0..n) \X (0..n) : wh[1] * wh[2] <= n } }

\* The uploaded bytes: nothing, bytes no decoder accepts, or an image.
ImageInputs(n) ==
    { [kind |-> "empty", width |-> 0, height |-> 0, data |-> <<>>],
      [kind |-> "garbage", width |-> 0, height |-> 0, data |-> <<>>] }
    \cup { [kind |-> "image", width |-> g.width, height |-> g.height,
            data |-> g.data] : g \in Grids(n) }

\* -------------------------------------------------------------- arithmetic
Max(a, b) == IF a >= b THEN a ELSE b
Min(a, b) == IF a <= b THEN a ELSE b
Abs(a) == IF a < 0 THEN -a ELSE a

\* n / d rounded to the nearest integer, ties to the even one (d > 0).
RoundHalfEven(n, d) ==
    LET q == n \div d
        r == n - q * d
    IN  IF 2 * r < d THEN q
        ELSE IF 2 * r > d THEN q + 1
        ELSE IF q % 2 = 0 THEN q ELSE q + 1

\* A value in 1e-6 units printed with four decimals: a count of 1e-4 units.
Fmt4(v) == RoundHalfEven(v, 100)

RECURSIVE ISqrtIter(_, _, _)
ISqrtIter(n, lo, hi) ==
    IF lo >= hi THEN lo
    ELSE LET mid == (lo + hi + 1) \div 2
         IN  IF mid * mid <= n THEN ISqrtIter(n, mid, hi)
             ELSE ISqrtIter(n, lo, mid - 1)

ISqrt(n) == ISqrtIter(n, 0, 30000)

\* _distance_2d: math.hypot over micrometre coordinates, in 0.1 mm.
Distance2D(x1, y1, x2, y2) ==
    LET dx == Abs(x2 - x1) \div 100
        dy == Abs(y2 - y1) \div 100
    IN  ISqrt(dx * dx + dy * dy)

\* _format_pose: x and y in micrometres (x_mm / 1000 in metres), z in
\* micrometres, then the fixed orientation.
FormatPose(x, y, z) ==
    <<Fmt4(x), Fmt4(y), Fmt4(z)>> \o RAD_ORIENTATION

Line(op, ind, txt, args) == [op |-> op, ind |-> ind, txt |-> txt, args |-> args]

\* ----------------------------------------------------------------- options
\* _merge_options: the defaults when no options are given, else the defaults
\* with every field replaced by the override's.
MergeOptions(overrides) ==
    IF overrides = None THEN DEFAULT_OPTIONS
    ELSE [ f \in DOMAIN DEFAULT_OPTIONS |-> overrides[1][f] ]

\* config.py: _coerce_int / _coerce_float with a minimum, _coerce_threshold.
Coerce(value, fallback, minimum) ==
    LET parsed == IF value = None THEN fallback ELSE value[1]
    IN  Max(parsed, minimum)

CoerceThreshold(value, fallback) ==
    LET parsed == IF value = None THEN fallback ELSE value[1]
    IN  Max(0, Min(255, parsed))

\* get_config + the URGenerationOptions built by upload_image: env holds the
\* environment's values, None when the variables are unset.
Env(env, f) == IF env = None THEN None ELSE Some(env[1][f])

ConfigOptions(env) ==
    [ workpiece_width_mm |-> Coerce(Env(env, "workpiece_width_mm"), 500, 1),
      workpiece_height_mm |-> Coerce(Env(env, "workpiece_height_mm"), 500, 1),
      safe_height_mm |-> Coerce(Env(env, "safe_height_mm"), 150, 10),
      tuft_height_mm |-> Coerce(Env(env, "tuft_height_mm"), 5, 1),
      tool_output |-> Coerce(Env(env, "tool_output"), 0, 0),
      travel_speed_mm_per_sec |->
          Coerce(Env(env, "travel_speed_mm_per_sec"), 200, 10),
      tuft_speed_mm_per_sec |->
          Coerce(Env(env, "tuft_speed_mm_per_sec"), 60, 5),
      black_pixel_threshold |->
          CoerceThreshold(Env(env, "black_pixel_threshold"), 64),
      contact_force_threshold_n |->
          Coerce(Env(env, "contact_force_threshold_n"), 1500, 50) ]

\* Derived settings of generate_ur_program (lines 91-96).
SafeZ(s) == s.safe_height_mm * 1000
SurfaceZ(s) == Max(0, (s.safe_height_mm - s.tuft_height_mm) * 1000)
TravelSpeed(s) == s.travel_speed_mm_per_sec * 1000
TuftSpeed(s) == s.tuft_speed_mm_per_sec * 1000
\* The threshold as it would be without the clamp of line 95.
Threshold_Unclamped(s) == s.black_pixel_threshold
Threshold(s) == Max(0, Min(255, s.black_pixel_threshold))
ContactForceThreshold(s) == Max(50, s.contact_force_threshold_n)

PixelWidth(s, img) == (s.workpiece_width_mm * 1000) \div img.width
PixelHeight(s, img) == (s.workpiece_height_mm * 1000) \div img.height
\* (index + 0.5) * pixel size
Centre(index, size) == ((2 * index + 1) * size) \div 2

\* ------------------------------------------------------------------- state
VARIABLES
    caller,          \* "direct": generate_ur_program called as a library
                     \* function; "upload": through POST /api/images
    config,          \* api.py's module-level config = get_config()
    image_bytes,     \* the bytes argument
    original_name,   \* the filename argument
    options,         \* the options argument (None or a URGenerationOptions)
    pc,              \* position of the call
    settings,        \* generate_ur_program locals, None before assignment
    image,
    column,
    column_plans,
    active_pixels,
    tuft_segments,
    job_id,
    planner,         \* program_lines and the state the nested helpers share
    plan_index,      \* position of the loops of lines 231-233
    segment_index,
    result,          \* the URGenerationResult returned
    error,           \* the exception raised, "" when none
    sent,            \* what send_program_to_robot did, None before the call
    robot_delivery,  \* upload_image locals
    response_status,
    response,        \* the HTTP response, None before it is sent
    uuid_state,      \* number of uuid4() values drawn so far
    calls,           \* number of invocations of generate_ur_program so far
    saved,           \* an earlier invocation's arguments and result
    robot_program,   \* send_program_to_robot's program, when called by itself
    rtde_script_client  \* how the ur_rtde library behaves in that call

inputVars == <<caller, config, image_bytes, original_name, options>>
scanVars == <<image, column, column_plans, active_pixels>>
planVars == <<tuft_segments, job_id, planner, plan_index, segment_index>>
uploadVars == <<sent, robot_delivery, response_status, response>>
repeatVars == <<calls, saved>>
sendVars == <<robot_program, rtde_script_client>>
vars == <<inputVars, pc, settings, scanVars, planVars, result, error,
          uploadVars, uuid_state, repeatVars, sendVars>>

S == settings[1]
Img == image[1]

\* The nonlocal state of the nested helpers before line 134 has run.
BlankPlanner ==
    [ program_lines |-> <<>>,
      last_safe_x |-> None, last_safe_y |-> None,
      last_surface_x |-> None, last_surface_y |-> None,
      tool_active |-> FALSE,
      travel_distance_mm |-> 0,
      tuft_distance_mm |-> 0,
      vertical_distance_mm |-> 0,
      actions |-> <<>> ]

NoDelivery == [attempted |-> FALSE, status |-> "", error |-> ""]

\* A process that has not entered generate_ur_program yet.
FreshLocals ==
    /\ settings = None
    /\ image = None
    /\ column = 0
    /\ column_plans = <<>>
    /\ active_pixels = 0
    /\ tuft_segments = 0
    /\ job_id = 0
    /\ planner = BlankPlanner
    /\ plan_index = 0
    /\ segment_index = 0
    /\ result = None
    /\ error = ""
    /\ sent = None
    /\ robot_delivery = NoDelivery
    /\ response_status = 0
    /\ response = None

\* One call: a library call with any options, or an upload whose options
\* come from the environment through get_config.
Init ==
    /\ caller \in {"direct", "upload"}
    /\ image_bytes \in ImageInputs(MaxPixels)
    /\ original_name \in Names
    /\ \E env \in OptionInputs, enabled \in BOOLEAN :
          IF caller = "direct"
          THEN /\ options = env
               /\ config = [options |-> ConfigOptions(None), enabled |-> FALSE]
               /\ enabled = FALSE
          ELSE /\ options = None
               /\ config = [options |-> ConfigOptions(env), enabled |-> enabled]
    /\ pc = IF caller = "direct" THEN "call" ELSE "request"
    /\ FreshLocals
    /\ uuid_state = 0
    /\ calls = 1
    /\ saved = None
    /\ robot_program = None
    /\ rtde_script_client = None

\* ------------------------------------------------------- pixel classifier
Pixel(img, row, col) == img.data[row * img.width + col + 1]

\* The comparison of lines 118 and 120 turned around.
IsDark_Inverted(pixel_value, threshold) == pixel_value >= threshold

\* Lines 118 and 120: a pixel is dark when its value is at most the threshold.
IsDark(pixel_value, threshold) == pixel_value <= threshold

\* The inner while as it would be if it stopped after one pixel.
RunEnd_OnePixel(img, threshold, col, row) == row + 1

\* The inner while of line 120: the first row at or after `row` that is not
\* dark, or the height.
RECURSIVE RunEnd(_, _, _, _)
RunEnd(img, threshold, col, row) ==
    IF row < img.height /\ IsDark(Pixel(img, row, col), threshold)
    THEN RunEnd(img, threshold, col, row + 1)
    ELSE row

\* The scan as it would be with the run length taken as end - start.
RECURSIVE ScanRows_OffByOne(_, _, _, _, _, _)
ScanRows_OffByOne(img, threshold, col, row, segments, active) ==
    IF row >= img.height
    THEN [segments |-> segments, active |-> active]
    ELSE IF IsDark(Pixel(img, row, col), threshold)
         THEN LET start == row
                  end == RunEnd(img, threshold, col, row) - 1
              IN  ScanRows_OffByOne(img, threshold, col, end + 1,
                                    Append(segments, <<start, end>>),
                                    active + (end - start))
         ELSE ScanRows_OffByOne(img, threshold, col, row + 1, segments, active)

\* The while of lines 116-126 from `row` on: the segments of the column and
\* the number of pixels in them.
RECURSIVE ScanRows(_, _, _, _, _, _)
ScanRows(img, threshold, col, row, segments, active) ==
    IF row >= img.height
    THEN [segments |-> segments, active |-> active]
    ELSE IF IsDark(Pixel(img, row, col), threshold)
         THEN LET start == row
                  end == RunEnd(img, threshold, col, row) - 1
              IN  ScanRows(img, threshold, col, end + 1,
                           Append(segments, <<start, end>>),
                           active + (end - start + 1))
         ELSE ScanRows(img, threshold, col, row + 1, segments, active)

RECURSIVE SumLen(_)
SumLen(plans) ==
    IF plans = <<>> THEN 0 ELSE Len(Head(plans)[2]) + SumLen(Tail(plans))

\* ----------------------------------------------------------- motion planner
\* A movel to a pose, as the helpers print it.
MoveL(ind, x_mm, y_mm, z, a, v) ==
    Line("movel", ind, "", FormatPose(x_mm, y_mm, z) \o <<a, Fmt4(v)>>)

\* The history of the helpers' calls: which motion or tool command a helper
\* emitted, toward which point, at which script line, and what the shared
\* state was when it was called.
Act(p, kind, x_mm, y_mm, on) ==
    [ kind |-> kind, x |-> x_mm, y |-> y_mm, on |-> on,
      line |-> Len(p.program_lines) + 1,
      safe |-> <<p.last_safe_x, p.last_safe_y>>,
      surface |-> <<p.last_surface_x, p.last_surface_y>>,
      tool |-> p.tool_active ]

\* The nested helpers of generate_ur_program, lines 167-223.  Each takes the
\* shared state p and gives the state after the call.
move_safe(p, x_mm, y_mm) ==
    [p EXCEPT
       !.actions = Append(@, Act(p, "MoveSafe", x_mm, y_mm, FALSE)),
       !.travel_distance_mm =
           IF p.last_safe_x # None /\ p.last_safe_y # None
           THEN @ + Distance2D(p.last_safe_x[1], p.last_safe_y[1], x_mm, y_mm)
           ELSE @,
       !.program_lines =
           Append(@, MoveL(4, x_mm, y_mm, SafeZ(S), MOVE_ACCELERATION,
                           TravelSpeed(S))),
       !.last_safe_x = Some(x_mm),
       !.last_safe_y = Some(y_mm)]

\* lower_to_surface as it would be if it did not record where the tool
\* touched down.
lower_to_surface_NoSurface(p, x_mm, y_mm) ==
    [p EXCEPT
       !.actions = Append(@, Act(p, "LowerToSurface", x_mm, y_mm, FALSE)),
       !.vertical_distance_mm = @ + S.tuft_height_mm * 10,
       !.program_lines = @ \o
           << Line("local", 4, "contact_pose = get_actual_tcp_pose()", <<>>),
              Line("while", 4,
                   "norm(get_tcp_force()) < contact_force_threshold and contact_pose[2] >",
                   <<Fmt4(SurfaceZ(S))>>),
              Line("assign", 8,
                   "contact_pose := pose_trans(contact_pose, p[0, 0, -contact_probe_step, 0, 0, 0])",
                   <<>>),
              Line("movel", 8, "contact_pose",
                   <<APPROACH_ACCELERATION, Fmt4(TravelSpeed(S))>>),
              Line("end", 4, "", <<>>),
              Line("if", 4, "contact_pose[2] >", <<Fmt4(SurfaceZ(S))>>),
              MoveL(8, x_mm, y_mm, SurfaceZ(S), APPROACH_ACCELERATION,
                    TravelSpeed(S)),
              Line("end", 4, "", <<>>) >>]

lower_to_surface(p, x_mm, y_mm) ==
    [p EXCEPT
       !.actions = Append(@, Act(p, "LowerToSurface", x_mm, y_mm, FALSE)),
       !.vertical_distance_mm = @ + S.tuft_height_mm * 10,
       !.program_lines = @ \o
           << Line("local", 4, "contact_pose = get_actual_tcp_pose()", <<>>),
              Line("while", 4,
                   "norm(get_tcp_force()) < contact_force_threshold and contact_pose[2] >",
                   <<Fmt4(SurfaceZ(S))>>),
              Line("assign", 8,
                   "contact_pose := pose_trans(contact_pose, p[0, 0, -contact_probe_step, 0, 0, 0])",
                   <<>>),
              Line("movel", 8, "contact_pose",
                   <<APPROACH_ACCELERATION, Fmt4(TravelSpeed(S))>>),
              Line("end", 4, "", <<>>),
              Line("if", 4, "contact_pose[2] >", <<Fmt4(SurfaceZ(S))>>),
              MoveL(8, x_mm, y_mm, SurfaceZ(S), APPROACH_ACCELERATION,
                    TravelSpeed(S)),
              Line("end", 4, "", <<>>) >>,
       !.last_surface_x = Some(x_mm),
       !.last_surface_y = Some(y_mm)]

move_at_surface(p, x_mm, y_mm) ==
    [p EXCEPT
       !.actions = Append(@, Act(p, "MoveAtSurface", x_mm, y_mm, FALSE)),
       !.tuft_distance_mm =
           IF p.last_surface_x # None /\ p.last_surface_y # None
           THEN @ + Distance2D(p.last_surface_x[1], p.last_surface_y[1],
                               x_mm, y_mm)
           ELSE @,
       !.program_lines =
           Append(@, MoveL(4, x_mm, y_mm, SurfaceZ(S), MOVE_ACCELERATION,
                           TuftSpeed(S))),
       !.last_surface_x = Some(x_mm),
       !.last_surface_y = Some(y_mm)]

\* retract_to_safe as it would be if it left the vertical distance alone.
retract_to_safe_NoVertical(p, x_mm, y_mm) ==
    [p EXCEPT
       !.actions = Append(@, Act(p, "RetractToSafe", x_mm, y_mm, FALSE)),
       !.program_lines =
           Append(@, MoveL(4, x_mm, y_mm, SafeZ(S), APPROACH_ACCELERATION,
                           TravelSpeed(S))),
       !.last_surface_x = None,
       !.last_surface_y = None,
       !.last_safe_x = Some(x_mm),
       !.last_safe_y = Some(y_mm)]

retract_to_safe(p, x_mm, y_mm) ==
    [p EXCEPT
       !.actions = Append(@, Act(p, "RetractToSafe", x_mm, y_mm, FALSE)),
       !.vertical_distance_mm = @ + S.tuft_height_mm * 10,
       !.program_lines =
           Append(@, MoveL(4, x_mm, y_mm, SafeZ(S), APPROACH_ACCELERATION,
                           TravelSpeed(S))),
       !.last_surface_x = None,
       !.last_surface_y = None,
       !.last_safe_x = Some(x_mm),
       !.last_safe_y = Some(y_mm)]

SetDigitalOut(output, desired) ==
    Line("set_digital_out", 4, IF desired THEN "True" ELSE "False", <<output>>)

\* ensure_tool_state as it would be if it forgot to record the new state.
ensure_tool_state_NoUpdate(p, desired) ==
    IF p.tool_active = desired THEN p
    ELSE [p EXCEPT
            !.actions = Append(@, Act(p, "SetTool", 0, 0, desired)),
            !.program_lines = Append(@, SetDigitalOut(S.tool_output, desired))]

\* ensure_tool_state as it would be without the early return.
ensure_tool_state_NoDebounce(p, desired) ==
    [p EXCEPT
       !.actions = Append(@, Act(p, "SetTool", 0, 0, desired)),
       !.program_lines = Append(@, SetDigitalOut(S.tool_output, desired)),
       !.tool_active = desired]

ensure_tool_state(p, desired) ==
    IF p.tool_active = desired THEN p
    ELSE [p EXCEPT
            !.actions = Append(@, Act(p, "SetTool", 0, 0, desired)),
            !.program_lines = Append(@, SetDigitalOut(S.tool_output, desired)),
            !.tool_active = desired]

\* The header as it would be if the start message carried the job's number.
HeaderLines_Stamped(name, s) ==
    << Line("def", 0, "tuft_program():", <<>>),
       Line("textmsg", 4, "Starting tufting job " \o name, <<uuid_state>>),
       SetDigitalOut(s.tool_output, FALSE),
       Line("global", 4, "travel_speed", <<Fmt4(TravelSpeed(s))>>),
       Line("global", 4, "tuft_speed", <<Fmt4(TuftSpeed(s))>>),
       Line("global", 4, "contact_force_threshold",
            <<ContactForceThreshold(s)>>),
       Line("global", 4, "contact_probe_step", <<CONTACT_STEP_METERS>>) >>

\* Lines 134-142.
HeaderLines(name, s) ==
    << Line("def", 0, "tuft_program():", <<>>),
       Line("textmsg", 4, "Starting tufting job " \o name, <<>>),
       SetDigitalOut(s.tool_output, FALSE),
       Line("global", 4, "travel_speed", <<Fmt4(TravelSpeed(s))>>),
       Line("global", 4, "tuft_speed", <<Fmt4(TuftSpeed(s))>>),
       Line("global", 4, "contact_force_threshold",
            <<ContactForceThreshold(s)>>),
       Line("global", 4, "contact_probe_step", <<CONTACT_STEP_METERS>>) >>

\* The body as it would be if only the move of line 229 brought the tool
\* above a segment.
SegmentBody_NoMoveSafe(p, column_index, segment) ==
    LET column_x == Centre(column_index, PixelWidth(S, Img))
        start_y == Centre(segment[1], PixelHeight(S, Img))
        end_y == Centre(segment[2], PixelHeight(S, Img))
        p2 == lower_to_surface(p, column_x, start_y)
        p3 == ensure_tool_state(p2, TRUE)
        p4 == move_at_surface(p3, column_x, end_y)
        p5 == ensure_tool_state(p4, FALSE)
    IN  retract_to_safe(p5, column_x, end_y)

\* The body as it would be if the retract came before the tool is switched
\* off.
SegmentBody_RetractFirst(p, column_index, segment) ==
    LET column_x == Centre(column_index, PixelWidth(S, Img))
        start_y == Centre(segment[1], PixelHeight(S, Img))
        end_y == Centre(segment[2], PixelHeight(S, Img))
        p1 == IF p.last_safe_x # Some(column_x) \/ p.last_safe_y # Some(start_y)
              THEN move_safe(p, column_x, start_y)
              ELSE p
        p2 == lower_to_surface(p1, column_x, start_y)
        p3 == ensure_tool_state(p2, TRUE)
        p4 == move_at_surface(p3, column_x, end_y)
        p5 == retract_to_safe(p4, column_x, end_y)
    IN  ensure_tool_state(p5, FALSE)

\* The body as it would be without the comparison of line 237.
SegmentBody_AlwaysMoveSafe(p, column_index, segment) ==
    LET column_x == Centre(column_index, PixelWidth(S, Img))
        start_y == Centre(segment[1], PixelHeight(S, Img))
        end_y == Centre(segment[2], PixelHeight(S, Img))
        p1 == move_safe(p, column_x, start_y)
        p2 == lower_to_surface(p1, column_x, start_y)
        p3 == ensure_tool_state(p2, TRUE)
        p4 == move_at_surface(p3, column_x, end_y)
        p5 == ensure_tool_state(p4, FALSE)
    IN  retract_to_safe(p5, column_x, end_y)

\* The body as it would be if the tool were switched on above the surface,
\* before the descent.
SegmentBody_ToolFirst(p, column_index, segment) ==
    LET column_x == Centre(column_index, PixelWidth(S, Img))
        start_y == Centre(segment[1], PixelHeight(S, Img))
        end_y == Centre(segment[2], PixelHeight(S, Img))
        p1 == IF p.last_safe_x # Some(column_x) \/ p.last_safe_y # Some(start_y)
              THEN move_safe(p, column_x, start_y)
              ELSE p
        p2 == ensure_tool_state(p1, TRUE)
        p3 == lower_to_surface(p2, column_x, start_y)
        p4 == move_at_surface(p3, column_x, end_y)
        p5 == ensure_tool_state(p4, FALSE)
    IN  retract_to_safe(p5, column_x, end_y)

\* Lines 233-244: the body of the loops for one segment.
SegmentBody(p, column_index, segment) ==
    LET column_x == Centre(column_index, PixelWidth(S, Img))
        start_y == Centre(segment[1], PixelHeight(S, Img))
        end_y == Centre(segment[2], PixelHeight(S, Img))
        p1 == IF p.last_safe_x # Some(column_x) \/ p.last_safe_y # Some(start_y)
              THEN move_safe(p, column_x, start_y)
              ELSE p
        p2 == lower_to_surface(p1, column_x, start_y)
        p3 == ensure_tool_state(p2, TRUE)
        p4 == move_at_surface(p3, column_x, end_y)
        p5 == ensure_tool_state(p4, FALSE)
    IN  retract_to_safe(p5, column_x, end_y)

\* The closing lines as they would be if the tool were switched off without
\* consulting tool_active.
Closing_Forced(p) ==
    LET p1 == [p EXCEPT
                 !.actions = Append(@, Act(p, "Home", 0, 0, FALSE)),
                 !.travel_distance_mm =
                     @ + Distance2D(p.last_safe_x[1], p.last_safe_y[1], 0, 0),
                 !.program_lines =
                     Append(@, MoveL(4, 0, 0, SafeZ(S), MOVE_ACCELERATION,
                                     TravelSpeed(S))),
                 !.last_safe_x = Some(0),
                 !.last_safe_y = Some(0)]
    IN  [p1 EXCEPT
           !.actions = Append(@, Act(p1, "SetTool", 0, 0, FALSE)),
           !.tool_active = FALSE,
           !.program_lines = @ \o
               << SetDigitalOut(S.tool_output, FALSE),
                  Line("textmsg", 4, "Tufting job finished", <<>>),
                  Line("end", 0, "", <<>>) >>]

\* The closing lines as they would be without the move back to the origin.
Closing_NoHome(p) ==
    LET p2 == ensure_tool_state(p, FALSE)
    IN  [p2 EXCEPT
           !.program_lines = @ \o
               << Line("textmsg", 4, "Tufting job finished", <<>>),
                  Line("end", 0, "", <<>>) >>]

\* The closing lines as they would be if the procedure were left open.
Closing_NoEnd(p) ==
    LET p1 == IF p.last_safe_x # None /\ p.last_safe_y # None
              THEN [p EXCEPT
                      !.actions = Append(@, Act(p, "Home", 0, 0, FALSE)),
                      !.travel_distance_mm =
                          @ + Distance2D(p.last_safe_x[1], p.last_safe_y[1], 0, 0),
                      !.program_lines =
                          Append(@, MoveL(4, 0, 0, SafeZ(S), MOVE_ACCELERATION,
                                          TravelSpeed(S))),
                      !.last_safe_x = Some(0),
                      !.last_safe_y = Some(0)]
              ELSE p
        p2 == ensure_tool_state(p1, FALSE)
    IN  [p2 EXCEPT
           !.program_lines =
               Append(@, Line("textmsg", 4, "Tufting job finished", <<>>))]

\* Lines 246-258: the homing move, the tool state and the closing lines.
Closing(p) ==
    LET p1 == IF p.last_safe_x # None /\ p.last_safe_y # None
              THEN [p EXCEPT
                      !.actions = Append(@, Act(p, "Home", 0, 0, FALSE)),
                      !.travel_distance_mm =
                          @ + Distance2D(p.last_safe_x[1], p.last_safe_y[1], 0, 0),
                      !.program_lines =
                          Append(@, MoveL(4, 0, 0, SafeZ(S), MOVE_ACCELERATION,
                                          TravelSpeed(S))),
                      !.last_safe_x = Some(0),
                      !.last_safe_y = Some(0)]
              ELSE p
        p2 == ensure_tool_state(p1, FALSE)
    IN  [p2 EXCEPT
           !.program_lines = @ \o
               << Line("textmsg", 4, "Tufting job finished", <<>>),
                  Line("end", 0, "", <<>>) >>]

\* The estimate as it would be if a zero speed were replaced by 1 mm/s
\* instead of dropping the component.
EstimatedCycleTime_UnitSpeed(p, s) ==
    LET da == IF s.travel_speed_mm_per_sec # 0
              THEN s.travel_speed_mm_per_sec ELSE 1
        db == IF s.tuft_speed_mm_per_sec # 0
              THEN s.tuft_speed_mm_per_sec ELSE 1
    IN  RoundHalfEven((p.travel_distance_mm + p.vertical_distance_mm) * db
                          + p.tuft_distance_mm * da,
                      10 * da * db)

\* Lines 260-263: int(round(travel + tuft + vertical times)).  Distances in
\* 0.1 mm over speeds in mm/s are tenths of a second.
EstimatedCycleTime(p, s) ==
    LET ts == s.travel_speed_mm_per_sec
        fs == s.tuft_speed_mm_per_sec
        a == IF ts # 0 THEN p.travel_distance_mm + p.vertical_distance_mm ELSE 0
        da == IF ts # 0 THEN ts ELSE 1
        b == IF fs # 0 THEN p.tuft_distance_mm ELSE 0
        db == IF fs # 0 THEN fs ELSE 1
    IN  RoundHalfEven(a * db + b * da, 10 * da * db)

Metadata(estimate, img, segments, active) ==
    [ estimated_cycle_time_seconds |-> estimate,
      resolution |-> <<img.width, img.height>>,
      image_width |-> img.width,
      image_height |-> img.height,
      tuft_segments |-> segments,
      active_pixels |-> active ]

URGenerationResult(program, id, metadata) ==
    [program |-> program, job_id |-> id, metadata |-> metadata]

\* ------------------------------------------------- generate_ur_program
\* The validation as it would be with > in place of >=.
Validate_Strict ==
    /\ pc = "call"
    /\ settings' = Some(MergeOptions(options))
    /\ IF MergeOptions(options).tuft_height_mm
            > MergeOptions(options).safe_height_mm
       THEN /\ error' = "ValueError: Tuft height must be smaller than the safe height to allow a retract move."
            /\ pc' = "raised"
       ELSE /\ error' = error
            /\ pc' = "decode"
    /\ UNCHANGED <<inputVars, scanVars, planVars, result, uploadVars,
                   uuid_state, repeatVars, sendVars>>

\* Lines 86-96: merge the options and check the height order.
Validate ==
    /\ pc = "call"
    /\ settings' = Some(MergeOptions(options))
    /\ IF MergeOptions(options).tuft_height_mm
            >= MergeOptions(options).safe_height_mm
       THEN /\ error' = "ValueError: Tuft height must be smaller than the safe height to allow a retract move."
            /\ pc' = "raised"
       ELSE /\ error' = error
            /\ pc' = "decode"
    /\ UNCHANGED <<inputVars, scanVars, planVars, result, uploadVars,
                   uuid_state, repeatVars, sendVars>>

\* Lines 98-111: decode the bytes, check the dimensions, start the scan.
DecodeImage ==
    /\ pc = "decode"
    /\ IF image_bytes.kind # "image"
       THEN /\ error' = "UnidentifiedImageError: cannot identify image file"
            /\ pc' = "raised"
            /\ UNCHANGED scanVars
       ELSE /\ image' = Some([width |-> image_bytes.width,
                              height |-> image_bytes.height,
                              data |-> image_bytes.data])
            /\ IF image_bytes.width = 0 \/ image_bytes.height = 0
               THEN /\ error' = "ValueError: Unable to read uploaded image dimensions."
                    /\ pc' = "raised"
                    /\ UNCHANGED <<column, column_plans, active_pixels>>
               ELSE /\ error' = error
                    /\ pc' = "scan"
                    /\ column' = 0
                    /\ column_plans' = <<>>
                    /\ active_pixels' = 0
    /\ UNCHANGED <<inputVars, settings, planVars, result, uploadVars,
                   uuid_state, repeatVars, sendVars>>

\* The loop over the columns as it would be if each column's plan were put
\* in front of the plans found so far.
ScanColumn_Prepend ==
    /\ pc = "scan"
    /\ column < Img.width
    /\ LET scan == ScanRows(Img, Threshold(S), column, 0, <<>>, active_pixels)
       IN  /\ active_pixels' = scan.active
           /\ column_plans' =
                  IF scan.segments # <<>>
                  THEN <<(<<column, scan.segments>>)>> \o column_plans
                  ELSE column_plans
    /\ column' = column + 1
    /\ UNCHANGED <<inputVars, pc, settings, image, planVars, result, error,
                   uploadVars, uuid_state, repeatVars, sendVars>>

\* Lines 113-128: one iteration of the loop over the columns.
ScanColumn ==
    /\ pc = "scan"
    /\ column < Img.width
    /\ LET scan == ScanRows(Img, Threshold(S), column, 0, <<>>, active_pixels)
       IN  /\ active_pixels' = scan.active
           /\ column_plans' =
                  IF scan.segments # <<>>
                  THEN Append(column_plans, <<column, scan.segments>>)
                  ELSE column_plans
    /\ column' = column + 1
    /\ UNCHANGED <<inputVars, pc, settings, image, planVars, result, error,
                   uploadVars, uuid_state, repeatVars, sendVars>>

\* Lines 130-142: count the segments, draw the job id, write the header.
BuildHeader ==
    /\ pc = "scan"
    /\ column = Img.width
    /\ tuft_segments' = SumLen(column_plans)
    /\ uuid_state' = uuid_state + 1
    /\ job_id' = uuid_state + 1
    /\ planner' = [BlankPlanner EXCEPT
                     !.program_lines = HeaderLines(original_name, S)]
    /\ pc' = "header"
    /\ UNCHANGED <<inputVars, settings, scanVars, plan_index, segment_index,
                   result, error, uploadVars, repeatVars, sendVars>>

\* Lines 144-155: no segment, so the program only says so.
NothingToDo ==
    /\ pc = "header"
    /\ tuft_segments = 0
    /\ planner' = [planner EXCEPT
                     !.program_lines = @ \o
                         << Line("textmsg", 4,
                                 "No dark pixels detected; nothing to tuft.", <<>>),
                            Line("end", 0, "", <<>>) >>]
    /\ result' = Some(URGenerationResult(
                          planner'.program_lines, job_id,
                          Metadata(0, Img, tuft_segments, active_pixels)))
    /\ pc' = "returned"
    /\ UNCHANGED <<inputVars, settings, scanVars, tuft_segments, job_id,
                   plan_index, segment_index, error, uploadVars, uuid_state,
                   repeatVars, sendVars>>

\* Lines 157-229: the planner's state and the move above the first segment.
InitialMove ==
    /\ pc = "header"
    /\ tuft_segments # 0
    /\ LET first_column == column_plans[1][1]
           first_segment_start == column_plans[1][2][1][1]
           initial_x == Centre(first_column, PixelWidth(S, Img))
           initial_y == Centre(first_segment_start, PixelHeight(S, Img))
           p0 == [BlankPlanner EXCEPT !.program_lines = planner.program_lines]
       IN  planner' = move_safe(p0, initial_x, initial_y)
    /\ plan_index' = 1
    /\ segment_index' = 1
    /\ pc' = "segments"
    /\ UNCHANGED <<inputVars, settings, scanVars, tuft_segments, job_id,
                   result, error, uploadVars, uuid_state, repeatVars, sendVars>>

\* Lines 231-244: one iteration of the loops over the plan.
PlanSegment ==
    /\ pc = "segments"
    /\ plan_index <= Len(column_plans)
    /\ LET column_index == column_plans[plan_index][1]
           segments == column_plans[plan_index][2]
       IN  /\ planner' = SegmentBody(planner, column_index,
                                     segments[segment_index])
           /\ IF segment_index < Len(segments)
              THEN /\ segment_index' = segment_index + 1
                   /\ plan_index' = plan_index
              ELSE /\ segment_index' = 1
                   /\ plan_index' = plan_index + 1
    /\ UNCHANGED <<inputVars, pc, settings, scanVars, tuft_segments, job_id,
                   result, error, uploadVars, uuid_state, repeatVars, sendVars>>

\* Lines 246-274: home, switch the tool off, close the program, estimate the
\* cycle time and return.
Finish ==
    /\ pc = "segments"
    /\ plan_index > Len(column_plans)
    /\ planner' = Closing(planner)
    /\ result' = Some(URGenerationResult(
                          planner'.program_lines, job_id,
                          Metadata(EstimatedCycleTime(planner', S), Img,
                                   tuft_segments, active_pixels)))
    /\ pc' = "returned"
    /\ UNCHANGED <<inputVars, settings, scanVars, tuft_segments, job_id,
                   plan_index, segment_index, error, uploadVars, uuid_state,
                   repeatVars, sendVars>>

Generate ==
    \/ Validate
    \/ DecodeImage
    \/ ScanColumn
    \/ BuildHeader
    \/ NothingToDo
    \/ InitialMove
    \/ PlanSegment
    \/ Finish

\* ------------------------------------------------------- robot_client.py
\* What the ur_rtde SDK and the controller do when asked: the import, the
\* client's construction, the presence of a send method, the send and the
\* disconnect each succeed or fail.
SdkBehaviours ==
    [ import : {"ok", "ImportError", "OSError"},
      connect : BOOLEAN,
      send_fn : BOOLEAN,
      send : BOOLEAN,
      disconnect : BOOLEAN ]

Delivery(raised, message, script, disconnects, sdk_calls, suppressed) ==
    [raised |-> raised, message |-> message, script |-> script,
     disconnects |-> disconnects, sdk_calls |-> sdk_calls,
     suppressed |-> suppressed]

\* send_program_to_robot as it would be if the client were disconnected
\* after a successful send only, with no finally clause.
send_program_to_robot_NoFinally(program, enabled, sdk) ==
    IF ~enabled THEN Delivery("", "", None, 0, <<>>, FALSE)
    ELSE IF sdk.import = "ImportError"
    THEN Delivery("RobotCommunicationError",
                  "The 'ur-rtde' package is required for robot communication.",
                  None, 0, <<"import">>, FALSE)
    ELSE IF sdk.import # "ok"
    THEN Delivery(sdk.import, "cannot load the ur_rtde library", None, 0,
                  <<"import">>, FALSE)
    ELSE IF ~sdk.connect
    THEN Delivery("RobotCommunicationError",
                  "Failed to initialise RTDE script client", None, 0,
                  <<"import", "RTDEScriptClient">>, FALSE)
    ELSE IF ~sdk.send_fn
    THEN Delivery("RobotCommunicationError",
                  "Failed to deliver program to robot", None, 0,
                  <<"import", "RTDEScriptClient", "getattr">>, FALSE)
    ELSE IF ~sdk.send
    THEN Delivery("RobotCommunicationError",
                  "Failed to deliver program to robot", None, 0,
                  <<"import", "RTDEScriptClient", "getattr", "sendScript">>,
                  FALSE)
    ELSE Delivery("", "", Some(program), 1,
                  <<"import", "RTDEScriptClient", "getattr", "sendScript",
                    "disconnect">>,
                  ~sdk.disconnect)

\* send_program_to_robot: the exception that reaches the caller ("" when it
\* returns), the program the controller received, the disconnect calls, the
\* calls made into the library in order, and whether an exception of
\* disconnect was swallowed.
send_program_to_robot(program, enabled, sdk) ==
    IF ~enabled THEN Delivery("", "", None, 0, <<>>, FALSE)
    ELSE IF sdk.import = "ImportError"
    THEN Delivery("RobotCommunicationError",
                  "The 'ur-rtde' package is required for robot communication.",
                  None, 0, <<"import">>, FALSE)
    ELSE IF sdk.import # "ok"
    THEN Delivery(sdk.import, "cannot load the ur_rtde library", None, 0,
                  <<"import">>, FALSE)
    ELSE IF ~sdk.connect
    THEN Delivery("RobotCommunicationError",
                  "Failed to initialise RTDE script client", None, 0,
                  <<"import", "RTDEScriptClient">>, FALSE)
    ELSE IF ~sdk.send_fn
    THEN Delivery("RobotCommunicationError",
                  "Failed to deliver program to robot", None, 1,
                  <<"import", "RTDEScriptClient", "getattr", "disconnect">>,
                  ~sdk.disconnect)
    ELSE IF ~sdk.send
    THEN Delivery("RobotCommunicationError",
                  "Failed to deliver program to robot", None, 1,
                  <<"import", "RTDEScriptClient", "getattr", "sendScript",
                    "disconnect">>,
                  ~sdk.disconnect)
    ELSE Delivery("", "", Some(program), 1,
                  <<"import", "RTDEScriptClient", "getattr", "sendScript",
                    "disconnect">>,
                  ~sdk.disconnect)

\* ------------------------------------------------------------- upload_image
HttpResponse(status_code, detail, payload) ==
    [status_code |-> status_code, detail |-> detail, payload |-> payload]

\* Lines 51-68: read the upload, reject an empty one, build the options from
\* the configuration.
UploadRead ==
    /\ pc = "request"
    /\ IF image_bytes.kind = "empty"
       THEN /\ response' = Some(HttpResponse(400,
                   "No image file provided under field 'image'.", None))
            /\ pc' = "responded"
            /\ UNCHANGED options
       ELSE /\ options' = Some(config.options)
            /\ pc' = "call"
            /\ UNCHANGED response
    /\ UNCHANGED <<caller, config, image_bytes, original_name, settings,
                   scanVars, planVars, result, error, sent, robot_delivery,
                   response_status, uuid_state, repeatVars, sendVars>>

\* Lines 76-80: an exception of generate_ur_program becomes a 500.
UploadGenerationFailed ==
    /\ caller = "upload"
    /\ pc = "raised"
    /\ response' = Some(HttpResponse(500, error, None))
    /\ pc' = "responded"
    /\ UNCHANGED <<inputVars, settings, scanVars, planVars, result, error,
                   sent, robot_delivery, response_status, uuid_state,
                   repeatVars, sendVars>>

\* Lines 82-100: hand the program to the robot when one is configured.
\* The delivery as it would be if a failed delivery were reported like a
\* failed generation.
DeliveryOutcome_AsError(enabled, call) ==
    IF ~enabled
    THEN [delivery |-> [attempted |-> FALSE, status |-> "skipped", error |-> ""],
          status_code |-> 200]
    ELSE IF call.raised = ""
    THEN [delivery |-> [attempted |-> TRUE, status |-> "delivered", error |-> ""],
          status_code |-> 200]
    ELSE [delivery |-> [attempted |-> TRUE, status |-> "failed",
                        error |-> call.message],
          status_code |-> 500]

DeliveryOutcome(enabled, call) ==
    IF ~enabled
    THEN [delivery |-> [attempted |-> FALSE, status |-> "skipped", error |-> ""],
          status_code |-> 200]
    ELSE IF call.raised = ""
    THEN [delivery |-> [attempted |-> TRUE, status |-> "delivered", error |-> ""],
          status_code |-> 200]
    ELSE [delivery |-> [attempted |-> TRUE, status |-> "failed",
                        error |-> call.message],
          status_code |-> 202]

UploadDeliver ==
    /\ caller = "upload"
    /\ pc = "returned"
    /\ \E sdk \in SdkBehaviours :
          LET call == IF config.enabled
                      THEN send_program_to_robot(result[1].program,
                                                 config.enabled, sdk)
                      ELSE Delivery("", "", None, 0, <<>>, FALSE)
              outcome == DeliveryOutcome(config.enabled, call)
          IN  /\ sent' = IF config.enabled THEN Some(call) ELSE None
              /\ robot_delivery' = outcome.delivery
              /\ response_status' = outcome.status_code
    /\ pc' = "respond"
    /\ UNCHANGED <<inputVars, settings, scanVars, planVars, result, error,
                   response, uuid_state, repeatVars, sendVars>>

\* Lines 102-118: the payload of the response.
Payload(r, delivery) ==
    [ jobId |-> r.job_id,
      metadata |->
          [ estimatedCycleTimeSeconds |-> r.metadata.estimated_cycle_time_seconds,
            resolution |-> r.metadata.resolution,
            imageWidth |-> r.metadata.image_width,
            imageHeight |-> r.metadata.image_height,
            tuftSegments |-> r.metadata.tuft_segments,
            activePixels |-> r.metadata.active_pixels ],
      program |-> r.program,
      robotDelivery |-> delivery ]

UploadRespond ==
    /\ pc = "respond"
    /\ response' = Some(HttpResponse(response_status, "",
                                     Some(Payload(result[1], robot_delivery))))
    /\ pc' = "responded"
    /\ UNCHANGED <<inputVars, settings, scanVars, planVars, result, error,
                   sent, robot_delivery, response_status, uuid_state,
                   repeatVars, sendVars>>

Upload ==
    \/ UploadRead
    \/ UploadGenerationFailed
    \/ UploadDeliver
    \/ UploadRespond

Next == Generate \/ Upload

Spec == Init /\ [][Next]_vars

\* ------------------------------------------------- repeated invocations
\* A process that calls generate_ur_program again and again.  The locals of a
\* call do not outlive it; the uuid generator's state does.
RepeatOptionInputs ==
    { None,
      Some([BaseOptions EXCEPT !.black_pixel_threshold = 65]),
      Some([BaseOptions EXCEPT !.safe_height_mm = 5]) }

InitRepeat ==
    /\ caller = "direct"
    /\ config = [options |-> ConfigOptions(None), enabled |-> FALSE]
    /\ image_bytes \in ImageInputs(RepMaxPixels)
    /\ original_name \in Names
    /\ options \in RepeatOptionInputs
    /\ pc = "call"
    /\ FreshLocals
    /\ uuid_state = 0
    /\ calls = 1
    /\ saved = None
    /\ robot_program = None
    /\ rtde_script_client = None

Invocation ==
    [ call |-> calls, image_bytes |-> image_bytes,
      original_name |-> original_name, options |-> options,
      result |-> result[1] ]

\* The previous call is over; its caller may keep what it returned, and
\* calls again.
NextCall ==
    /\ pc \in {"returned", "raised"}
    /\ calls < MaxCalls
    /\ calls' = calls + 1
    /\ \/ /\ pc = "returned"
          /\ saved = None
          /\ saved' = Some(Invocation)
       \/ saved' = saved
    /\ image_bytes' \in ImageInputs(RepMaxPixels)
    /\ original_name' \in Names
    /\ options' \in RepeatOptionInputs
    /\ pc' = "call"
    /\ settings' = None
    /\ image' = None
    /\ column' = 0
    /\ column_plans' = <<>>
    /\ active_pixels' = 0
    /\ tuft_segments' = 0
    /\ job_id' = 0
    /\ planner' = BlankPlanner
    /\ plan_index' = 0
    /\ segment_index' = 0
    /\ result' = None
    /\ error' = ""
    /\ UNCHANGED <<caller, config, uploadVars, uuid_state, sendVars>>

NextRepeat == Generate \/ NextCall

SpecRepeat == InitRepeat /\ [][NextRepeat]_vars

\* -------------------------------------------- send_program_to_robot alone
\* The program texts handed over: an empty one and a smallest procedure.
SendPrograms ==
    { <<>>,
      << Line("def", 0, "tuft_program():", <<>>), Line("end", 0, "", <<>>) >> }

\* One call of send_program_to_robot with any program, a robot enabled or
\* not, and a library that may fail at any of its calls.
InitSend ==
    /\ caller = "send"
    /\ \E enabled \in BOOLEAN :
          config = [options |-> ConfigOptions(None), enabled |-> enabled]
    /\ robot_program \in SendPrograms
    /\ rtde_script_client \in SdkBehaviours
    /\ image_bytes = [kind |-> "empty", width |-> 0, height |-> 0, data |-> <<>>]
    /\ original_name \in Names
    /\ options = None
    /\ pc = "send_call"
    /\ FreshLocals
    /\ uuid_state = 0
    /\ calls = 1
    /\ saved = None

\* robot_client.py lines 12-48, from the call to the return or the raise.
SendProgram ==
    /\ pc = "send_call"
    /\ LET call == send_program_to_robot(robot_program, config.enabled,
                                         rtde_script_client)
       IN  /\ sent' = Some(call)
           /\ pc' = IF call.raised = "" THEN "send_returned" ELSE "send_raised"
    /\ UNCHANGED <<inputVars, settings, scanVars, planVars, result, error,
                   robot_delivery, response_status, response, uuid_state,
                   repeatVars, sendVars>>

NextSend == SendProgram

SpecSend == InitSend /\ [][NextSend]_vars

\* ================================================================ properties
\* The script written so far, and the script a finished call returned.
Lines == planner.program_lines
Returned == pc \in {"returned", "respond", "responded"} /\ result # None
Program == result[1].program

IsSetTool(l) == l.op = "set_digital_out"
IsMove(l) == l.op = "movel"
\* The set_digital_out lines of a script, in order.
ToolLines(lines) == SelectSeq(lines, IsSetTool)
\* The lines the planner wrote after the seven header lines.
ActionLines(lines) == SubSeq(lines, Len(HeaderLines(original_name, S)) + 1, Len(lines))
Alternating(tools) ==
    \A i \in 1..(Len(tools) - 1) : tools[i].txt # tools[i + 1].txt
HomingMove ==
    MoveL(4, 0, 0, SafeZ(S), MOVE_ACCELERATION, TravelSpeed(S))
FinishMessage == Line("textmsg", 4, "Tufting job finished", <<>>)

\* C1: in every program generate_ur_program returns, the last
\* set_digital_out instruction of the script (the header's included)
\* switches the tool off.
C1_ToolOffAtEnd ==
    Returned =>
        LET tools == ToolLines(Program)
        IN  /\ tools # <<>>
            /\ tools[Len(tools)].txt = "False"
            /\ tools[Len(tools)].args = <<S.tool_output>>

\* A returned program with two strokes or more, so the tool was switched on
\* and off more than once before the end.
C1_Witness ==
    /\ Returned
    /\ tuft_segments >= 2
    /\ \E i \in 1..Len(Program) :
          IsSetTool(Program[i]) /\ Program[i].txt = "True"

\* C2: at every point of the generation, no two consecutive set_digital_out
\* instructions of the script carry the same boolean; this holds with the
\* header's instruction counted and for the planner's SetTool actions alone.
C2_Debounce ==
    /\ Alternating(ToolLines(Lines))
    /\ settings # None /\ Len(Lines) >= Len(HeaderLines(original_name, S))
          => Alternating(ToolLines(ActionLines(Lines)))

\* A finished script whose planner switched the tool four times or more.
C2_Witness ==
    /\ Returned
    /\ Len(ToolLines(ActionLines(Program))) >= 4

\* C3 as stated: with at least one segment, a SetTool(false) stands between
\* the final homing move and the finish message.
C3_ForcedToolOff ==
    Returned /\ tuft_segments > 0 =>
        LET n == Len(Program)
        IN  /\ Program[n - 1] = FinishMessage
            /\ Program[n - 2] = SetDigitalOut(S.tool_output, FALSE)
            /\ Program[n - 3] = HomingMove

\* C3 amended: with at least one segment, the closing ensure_tool_state(False)
\* is debounced like every other: the tool is already commanded off, so the
\* homing move is directly followed by the finish message, and the script's
\* last set_digital_out is the False written before the last retract.
C3_DebouncedToolOff ==
    Returned /\ tuft_segments > 0 =>
        LET n == Len(Program)
        IN  /\ Program[n] = Line("end", 0, "", <<>>)
            /\ Program[n - 1] = FinishMessage
            /\ Program[n - 2] = HomingMove
            /\ IsMove(Program[n - 3])
            /\ Program[n - 3].args[7] = APPROACH_ACCELERATION
            /\ Program[n - 4] = SetDigitalOut(S.tool_output, FALSE)
            /\ planner.tool_active = FALSE

\* A returned program with a stroke in it.
C3_Witness ==
    /\ Returned
    /\ tuft_segments > 0
    /\ Program[Len(Program) - 2] = HomingMove

\* C4: when the options' tuft height is at least the safe height, the call
\* raises the validation error, and nothing was decoded, scanned, written or
\* returned.
C4_HeightOrderFailsFast ==
    LET merged == MergeOptions(options)
    IN  pc \notin {"request", "call"}
        /\ merged.tuft_height_mm >= merged.safe_height_mm
        => /\ pc \in {"raised", "responded"}
           /\ error = "ValueError: Tuft height must be smaller than the safe height to allow a retract move."
           /\ image = None
           /\ column_plans = <<>>
           /\ active_pixels = 0
           /\ planner = BlankPlanner
           /\ job_id = 0
           /\ result = None

\* The call has raised for a 1 x 1 all-bright image whose options give equal
\* tuft and safe heights.
C4_Witness ==
    /\ pc = "raised"
    /\ caller = "direct"
    /\ image_bytes.kind = "image"
    /\ image_bytes.width = 1 /\ image_bytes.height = 1
    /\ image_bytes.data = <<65>>
    /\ S.tuft_height_mm = S.safe_height_mm

\* C5: for an image without a pixel at or below the (clamped) threshold the
\* call returns zero segments, zero active pixels, a zero cycle time and the
\* header followed by the nothing-to-do message: no move, no SetTool(true).
NoDarkPixel ==
    \A i \in 1..Len(Img.data) : Img.data[i] > Threshold(S)

C5_NothingToTuft ==
    Returned /\ NoDarkPixel =>
        /\ result[1].metadata.tuft_segments = 0
        /\ result[1].metadata.active_pixels = 0
        /\ result[1].metadata.estimated_cycle_time_seconds = 0
        /\ Program = HeaderLines(original_name, S) \o
               << Line("textmsg", 4,
                       "No dark pixels detected; nothing to tuft.", <<>>),
                  Line("end", 0, "", <<>>) >>
        /\ \A i \in 1..Len(Program) :
              /\ ~IsMove(Program[i])
              /\ ~(IsSetTool(Program[i]) /\ Program[i].txt = "True")

\* A returned program for an all-bright image of several pixels.
C5_Witness ==
    /\ Returned
    /\ NoDarkPixel
    /\ Len(Img.data) >= 4
    /\ Img.width >= 2

\* C6: two invocations with the same bytes, filename and options return the
\* same script and the same metadata, whatever was called in between.
SameArguments ==
    /\ saved[1].image_bytes = image_bytes
    /\ saved[1].original_name = original_name
    /\ saved[1].options = options

C6_Deterministic ==
    pc = "returned" /\ saved # None /\ SameArguments =>
        /\ result[1].program = saved[1].result.program
        /\ result[1].metadata = saved[1].result.metadata

\* The third invocation repeats the first one's arguments, returns a program
\* with a stroke in it, and carries another job id.
C6_Witness ==
    /\ pc = "returned"
    /\ saved # None
    /\ SameArguments
    /\ saved[1].call = 1
    /\ calls = 3
    /\ tuft_segments > 0
    /\ result[1].job_id # saved[1].result.job_id

\* C7: the active pixel count is the sum of end - start + 1 over the segments
\* of the plan, at every point of the scan and in the returned metadata; the
\* segment count is the number of segments; one is positive exactly when the
\* other is.
RECURSIVE SegmentPixels(_)
SegmentPixels(segments) ==
    IF segments = <<>> THEN 0
    ELSE (Head(segments)[2] - Head(segments)[1] + 1) + SegmentPixels(Tail(segments))

RECURSIVE PlanPixels(_)
PlanPixels(plans) ==
    IF plans = <<>> THEN 0
    ELSE SegmentPixels(Head(plans)[2]) + PlanPixels(Tail(plans))

PlanSegments(plans) ==
    Cardinality({ ki \in (1..Len(plans)) \X (0..MaxPixels + 1) :
                    ki[2] >= 1 /\ ki[2] <= Len(plans[ki[1]][2]) })

C7_ActivePixels ==
    /\ active_pixels = PlanPixels(column_plans)
    /\ Returned =>
          /\ result[1].metadata.active_pixels = PlanPixels(column_plans)
          /\ result[1].metadata.tuft_segments = PlanSegments(column_plans)
          /\ (result[1].metadata.active_pixels > 0
                <=> result[1].metadata.tuft_segments > 0)

\* A returned result whose segments are fewer than its active pixels.
C7_Witness ==
    /\ Returned
    /\ result[1].metadata.tuft_segments >= 2
    /\ result[1].metadata.active_pixels > result[1].metadata.tuft_segments

\* C8: within each column of the plan the segments lie inside the grid with
\* start <= end, ascend strictly, and consecutive ones have a pixel above the
\* threshold between them.
C8_SegmentsOrdered ==
    \A k \in 1..Len(column_plans) :
        LET col == column_plans[k][1]
            segs == column_plans[k][2]
        IN  /\ \A i \in 1..Len(segs) :
                  /\ 0 <= segs[i][1]
                  /\ segs[i][1] <= segs[i][2]
                  /\ segs[i][2] < Img.height
            /\ \A i \in 1..(Len(segs) - 1) :
                  /\ segs[i][1] < segs[i + 1][1]
                  /\ segs[i][2] + 1 < segs[i + 1][1]
                  /\ \E r \in (segs[i][2] + 1)..(segs[i + 1][1] - 1) :
                        Pixel(Img, r, col) > Threshold(S)

\* A plan with a column of three segments.
C8_Witness ==
    /\ pc = "header"
    /\ \E k \in 1..Len(column_plans) : Len(column_plans[k][2]) = 3

\* C9: for every scanned column, a pixel lies in a segment of its column
\* exactly when its value is at most the threshold clamped to [0,255], and
\* then in exactly one; every segment is a maximal run; a column is in the
\* plan, once, exactly when it has a dark pixel.
ClampedThreshold ==
    IF S.black_pixel_threshold < 0 THEN 0
    ELSE IF S.black_pixel_threshold > 255 THEN 255
    ELSE S.black_pixel_threshold

DarkPixel(r, c) == Pixel(Img, r, c) <= ClampedThreshold

PlansOf(c) == { k \in 1..Len(column_plans) : column_plans[k][1] = c }

Covering(r, c) ==
    { ki \in (1..Len(column_plans)) \X (1..MaxPixels + 1) :
        /\ column_plans[ki[1]][1] = c
        /\ ki[2] <= Len(column_plans[ki[1]][2])
        /\ column_plans[ki[1]][2][ki[2]][1] <= r
        /\ r <= column_plans[ki[1]][2][ki[2]][2] }

C9_ExactClassification ==
    image # None =>
        /\ \A c \in 0..(column - 1) :
              /\ \A r \in 0..(Img.height - 1) :
                    Cardinality(Covering(r, c)) = IF DarkPixel(r, c) THEN 1 ELSE 0
              /\ Cardinality(PlansOf(c)) =
                    IF \E r \in 0..(Img.height - 1) : DarkPixel(r, c)
                    THEN 1 ELSE 0
        /\ \A k \in 1..Len(column_plans) :
              LET c == column_plans[k][1]
                  segs == column_plans[k][2]
              IN  /\ c \in 0..(column - 1)
                  /\ \A i \in 1..Len(segs) :
                        /\ segs[i][1] = 0 \/ ~DarkPixel(segs[i][1] - 1, c)
                        /\ segs[i][2] = Img.height - 1
                              \/ ~DarkPixel(segs[i][2] + 1, c)

\* The scan of a three-column image is over: one column is empty, one holds a
\* run of two pixels, and the threshold was clamped from below.
C9_Witness ==
    /\ pc = "header"
    /\ Img.width = 3
    /\ Len(column_plans) = 2
    /\ \E k \in 1..2 : column_plans[k][2] = << <<0, 1>> >>
    /\ S.black_pixel_threshold < 0

\* C10: in the upload flow the delivery changes nothing of what was
\* generated: the result is never reassigned, the response carries its
\* program, job id and metadata whether the delivery was skipped, succeeded
\* or failed, and a failed delivery is reported as robotDelivery "failed"
\* with status 202.
C10_ResponseCarriesResult ==
    pc = "responded" /\ result # None =>
        LET body == response[1].payload[1]
            r == result[1]
        IN  /\ response[1].payload # None
            /\ body.program = r.program
            /\ body.jobId = r.job_id
            /\ body.metadata.estimatedCycleTimeSeconds
                  = r.metadata.estimated_cycle_time_seconds
            /\ body.metadata.resolution = r.metadata.resolution
            /\ body.metadata.imageWidth = r.metadata.image_width
            /\ body.metadata.imageHeight = r.metadata.image_height
            /\ body.metadata.tuftSegments = r.metadata.tuft_segments
            /\ body.metadata.activePixels = r.metadata.active_pixels
            /\ IF sent = None
               THEN /\ body.robotDelivery.status = "skipped"
                    /\ response[1].status_code = 200
               ELSE IF sent[1].raised = ""
               THEN /\ body.robotDelivery.status = "delivered"
                    /\ response[1].status_code = 200
               ELSE /\ body.robotDelivery.status = "failed"
                    /\ body.robotDelivery.error = sent[1].message
                    /\ response[1].status_code = 202

C10_DeliveryKeepsResult ==
    /\ [](C10_ResponseCarriesResult)
    /\ [][result # None => result' = result]_vars

\* A response after a delivery that failed with an exception other than
\* RobotCommunicationError, for a program with a stroke in it.
C10_Witness ==
    /\ pc = "responded"
    /\ result # None
    /\ tuft_segments > 0
    /\ sent # None
    /\ sent[1].raised = "OSError"

\* C11: generation is all-or-nothing.  A result exists only once the call has
\* returned, and then it is complete: a script that opens the procedure and
\* ends with the terminator 'end', a job id and the six metadata fields.  A
\* call that raised left no result, however far it had come.  In the upload
\* flow a failed generation is answered with an error that carries no
\* program, and nothing was handed to the robot.
MetadataFields ==
    { "estimated_cycle_time_seconds", "resolution", "image_width",
      "image_height", "tuft_segments", "active_pixels" }

CompleteResult(r) ==
    /\ Len(r.program) >= 2
    /\ r.program[1] = Line("def", 0, "tuft_program():", <<>>)
    /\ r.program[Len(r.program)] = Line("end", 0, "", <<>>)
    /\ \A i \in 1..(Len(r.program) - 1) : r.program[i].ind > 0 \/ i = 1
    /\ DOMAIN r.metadata = MetadataFields
    /\ r.job_id = job_id

C11_AllOrNothing ==
    /\ result # None =>
          /\ pc \in {"returned", "respond", "responded"}
          /\ error = ""
          /\ CompleteResult(result[1])
    /\ (pc = "raised" \/ error # "") => result = None
    /\ pc = "raised" => error # ""
    /\ (caller = "upload" /\ error # "") =>
          /\ sent = None
          /\ robot_delivery = NoDelivery
          /\ response # None =>
                /\ response[1].status_code = 500
                /\ response[1].detail = error
                /\ response[1].payload = None

\* A configured robot, an upload whose generation failed, and the answer sent.
C11_Witness ==
    /\ caller = "upload"
    /\ config.enabled
    /\ pc = "responded"
    /\ error # ""
    /\ image # None
    /\ response # None

\* The planner's calls so far, and the strokes of the plan in the order of
\* the loops of lines 231-232, each as <<column, start row, end row>>.
Acts == planner.actions

RECURSIVE Strokes(_)
Strokes(plans) ==
    IF plans = <<>> THEN <<>>
    ELSE LET column_index == Head(plans)[1]
             segments == Head(plans)[2]
         IN  [i \in 1..Len(segments) |->
                 <<column_index, segments[i][1], segments[i][2]>>]
             \o Strokes(Tail(plans))

StrokeX(st) == Centre(st[1], PixelWidth(S, Img))
StartY(st) == Centre(st[2], PixelHeight(S, Img))
EndY(st) == Centre(st[3], PixelHeight(S, Img))

\* C12: when at least one segment was processed, the planner ends safe at
\* the origin with the tool off: its last call is the homing move to (0, 0)
\* at safe height, made with the tool commanded off right after the
\* RetractToSafe of the last segment; that move is the script's last movel,
\* and no movel and no set_digital_out(True) follows it.
C12_EndsSafeAtOrigin ==
    Returned /\ tuft_segments > 0 =>
        LET n == Len(Acts)
            h == Acts[n].line
            last == Strokes(column_plans)[tuft_segments]
        IN  /\ n >= 2
            /\ Acts[n].kind = "Home"
            /\ Acts[n].x = 0 /\ Acts[n].y = 0
            /\ Acts[n].tool = FALSE
            /\ Acts[n - 1].kind = "RetractToSafe"
            /\ Acts[n - 1].x = StrokeX(last)
            /\ Acts[n - 1].y = EndY(last)
            /\ Acts[n - 1].line = h - 1
            /\ Program[h] = MoveL(4, 0, 0, SafeZ(S), MOVE_ACCELERATION,
                                  TravelSpeed(S))
            /\ Program[h].args[3] = Fmt4(S.safe_height_mm * 1000)
            /\ \A i \in (h + 1)..Len(Program) :
                  /\ ~IsMove(Program[i])
                  /\ ~(IsSetTool(Program[i]) /\ Program[i].txt = "True")
            /\ planner.last_safe_x = Some(0)
            /\ planner.last_safe_y = Some(0)
            /\ planner.last_surface_x = None
            /\ planner.last_surface_y = None
            /\ planner.tool_active = FALSE

\* A returned program of three strokes or more in two columns or more.
C12_Witness ==
    /\ Returned
    /\ tuft_segments >= 3
    /\ Len(column_plans) >= 2
    /\ Acts[Len(Acts)].kind = "Home"

\* C13: a zero speed gives a zero time component, not a division fault.
\* With travel_speed_mm_per_sec = 0 the estimate is the tuft time alone
\* (travel and vertical times are 0); with tuft_speed_mm_per_sec = 0 it is
\* the travel and vertical time alone; and a call with a zero speed raises
\* only for the reasons any call raises (height order, undecodable bytes,
\* zero dimension), so it returns for every image.
Estimate == result[1].metadata.estimated_cycle_time_seconds

ZeroSpeed ==
    S.travel_speed_mm_per_sec = 0 \/ S.tuft_speed_mm_per_sec = 0

C13_ZeroSpeedZeroTime ==
    /\ (Returned /\ tuft_segments > 0 /\ S.travel_speed_mm_per_sec = 0
            /\ S.tuft_speed_mm_per_sec # 0) =>
          Estimate = RoundHalfEven(planner.tuft_distance_mm,
                                   10 * S.tuft_speed_mm_per_sec)
    /\ (Returned /\ tuft_segments > 0 /\ S.tuft_speed_mm_per_sec = 0
            /\ S.travel_speed_mm_per_sec # 0) =>
          Estimate = RoundHalfEven(planner.travel_distance_mm
                                       + planner.vertical_distance_mm,
                                   10 * S.travel_speed_mm_per_sec)
    /\ (Returned /\ ZeroSpeed) => Estimate >= 0
    /\ (pc = "raised" /\ settings # None /\ ZeroSpeed) =>
          \/ S.tuft_height_mm >= S.safe_height_mm
          \/ image_bytes.kind # "image"
          \/ image_bytes.width = 0
          \/ image_bytes.height = 0

\* A returned program of two strokes whose travel speed was 0: the moves
\* have a length, and the estimate is the tuft time.
C13_Witness ==
    /\ Returned
    /\ tuft_segments >= 2
    /\ S.travel_speed_mm_per_sec = 0
    /\ planner.travel_distance_mm > 0
    /\ planner.vertical_distance_mm > 0
    /\ Estimate < (planner.travel_distance_mm + planner.vertical_distance_mm) \div 10

\* The planner's calls of one kind, in order.
Kind(k) == SelectSeq(Acts, LAMBDA a : a.kind = k)

\* The scan is over and the plan is what the planner walks through.
Planned == pc = "header" \/ pc = "segments" \/ Returned

\* The strokes the loops of lines 231-232 have finished.
Done ==
    IF pc = "header" THEN 0
    ELSE IF pc = "segments"
    THEN SumLen(SubSeq(column_plans, 1, plan_index - 1)) + segment_index - 1
    ELSE SumLen(column_plans)

\* C14: the strokes appear in the planner's calls in strictly ascending
\* lexicographic order of (column index, segment start row): the plan is in
\* that order, and the k-th descent and the k-th surface move are those of
\* the k-th stroke of the plan, for every stroke finished so far and, once
\* the call has returned, for all tuft_segments of them, none twice and none
\* skipped.
C14_MonotonicScanOrder ==
    Planned =>
        LET strokes == Strokes(column_plans)
            lowers == Kind("LowerToSurface")
            moves == Kind("MoveAtSurface")
        IN  /\ \A i \in 1..Len(strokes) : \A j \in 1..Len(strokes) :
                  i < j =>
                      \/ strokes[i][1] < strokes[j][1]
                      \/ /\ strokes[i][1] = strokes[j][1]
                         /\ strokes[i][2] < strokes[j][2]
            /\ Len(strokes) = tuft_segments
            /\ Len(lowers) = Done
            /\ Len(moves) = Done
            /\ Returned => Done = tuft_segments
            /\ \A k \in 1..Len(lowers) :
                  /\ lowers[k].x = StrokeX(strokes[k])
                  /\ lowers[k].y = StartY(strokes[k])
                  /\ moves[k].x = StrokeX(strokes[k])
                  /\ moves[k].y = EndY(strokes[k])
            /\ \A i \in 1..Len(lowers) : \A j \in 1..Len(lowers) :
                  i < j =>
                      \/ lowers[i].x < lowers[j].x
                      \/ lowers[i].x = lowers[j].x /\ lowers[i].y < lowers[j].y

\* A returned program with two strokes in one column and a stroke in a later
\* column.
C14_Witness ==
    /\ Returned
    /\ Len(column_plans) >= 2
    /\ Len(column_plans[1][2]) >= 2
    /\ Len(Kind("LowerToSurface")) >= 3

\* Reading the planner's calls against the pattern of one segment.  Is(i, ..)
\* says that call i is of the kind, toward the point and with the tool value
\* given; BlockEnd is the index after the calls of stroke st that start at
\* call i, or 0 when the calls there are not those of st in order.
Is(i, kind, x_mm, y_mm, on) ==
    /\ i <= Len(Acts)
    /\ Acts[i].kind = kind
    /\ Acts[i].x = x_mm
    /\ Acts[i].y = y_mm
    /\ Acts[i].on = on

BlockEnd(i, st) ==
    LET i1 == IF Is(i, "MoveSafe", StrokeX(st), StartY(st), FALSE)
              THEN i + 1 ELSE i
        i2 == IF Is(i1 + 1, "SetTool", 0, 0, TRUE) THEN i1 + 2 ELSE i1 + 1
        i3 == IF Is(i2 + 1, "SetTool", 0, 0, FALSE) THEN i2 + 2 ELSE i2 + 1
    IN  IF /\ Is(i1, "LowerToSurface", StrokeX(st), StartY(st), FALSE)
           /\ Is(i2, "MoveAtSurface", StrokeX(st), EndY(st), FALSE)
           /\ Is(i3, "RetractToSafe", StrokeX(st), EndY(st), FALSE)
        THEN i3 + 1
        ELSE 0

RECURSIVE Parse(_, _, _)
Parse(i, k, last) ==
    IF k > last THEN i
    ELSE LET next == BlockEnd(i, Strokes(column_plans)[k])
         IN  IF next = 0 THEN 0 ELSE Parse(next, k + 1, last)

\* The script lines one call writes.
LinesOf(a) == IF a.kind = "LowerToSurface" THEN 8 ELSE 1

\* C15: every segment contributes, in this order and with nothing else
\* between, an optional MoveSafe(start), one LowerToSurface(start), an
\* optional SetTool(true), one MoveAtSurface(end), an optional
\* SetTool(false) and one RetractToSafe(end): the planner's calls are the
\* blocks of the finished strokes one after the other (before the first
\* block is finished, the MoveSafe above the first start alone; once the
\* call has returned, followed by the homing move alone), their script
\* lines follow one another without a gap from the header to the finish
\* message, and in a returned program the numbers of LowerToSurface,
\* MoveAtSurface and RetractToSafe calls each equal tuft_segments.
C15_SegmentPattern ==
    /\ (pc = "segments" \/ (Returned /\ tuft_segments > 0)) =>
          /\ IF Done = 0
             THEN /\ Len(Acts) = 1
                  /\ Is(1, "MoveSafe", StrokeX(Strokes(column_plans)[1]),
                        StartY(Strokes(column_plans)[1]), FALSE)
             ELSE Parse(1, 1, Done) = Len(Acts) + (IF Returned THEN 0 ELSE 1)
          /\ Returned => Acts[Len(Acts)].kind = "Home"
          /\ Acts[1].line = Len(HeaderLines(original_name, S)) + 1
          /\ \A i \in 1..(Len(Acts) - 1) :
                Acts[i + 1].line = Acts[i].line + LinesOf(Acts[i])
          /\ Acts[Len(Acts)].line + LinesOf(Acts[Len(Acts)])
                = Len(Lines) + (IF Returned THEN -1 ELSE 1)
    /\ Returned =>
          /\ Len(Kind("LowerToSurface")) = tuft_segments
          /\ Len(Kind("MoveAtSurface")) = tuft_segments
          /\ Len(Kind("RetractToSafe")) = tuft_segments
          /\ result[1].metadata.tuft_segments = tuft_segments

\* A returned program of three strokes, the second of which begins with its
\* own MoveSafe.
C15_Witness ==
    /\ Returned
    /\ tuft_segments = 3
    /\ Len(Acts) = 19
    /\ Acts[7].kind = "MoveSafe"
    /\ Acts[8].kind = "LowerToSurface"

\* The point a call is directed to, as the optional pair the planner keeps.
Target(a) == <<Some(a.x), Some(a.y)>>

\* C16: a MoveSafe is emitted only when the planner's last known safe
\* position differs from its target: no MoveSafe call finds last_safe equal
\* to the point it moves to, every MoveSafe is directly followed by the
\* descent at that point, and so there is at most one MoveSafe per segment
\* before the homing move.
C16_PositionalDeduplication ==
    (pc = "segments" \/ Returned) =>
        /\ \A i \in 1..Len(Acts) :
              Acts[i].kind = "MoveSafe" =>
                  /\ Acts[i].safe # Target(Acts[i])
                  /\ i < Len(Acts) =>
                        /\ Acts[i + 1].kind = "LowerToSurface"
                        /\ Target(Acts[i + 1]) = Target(Acts[i])
        /\ Len(Kind("MoveSafe")) <= Max(1, Done)
        /\ Returned => Len(Kind("MoveSafe")) <= tuft_segments

\* A returned program of two strokes or more: the first descent found the
\* planner above its start already (no MoveSafe in the loop), the second
\* had its MoveSafe.
C16_Witness ==
    /\ Returned
    /\ tuft_segments >= 2
    /\ Acts[1].kind = "MoveSafe"
    /\ Acts[2].kind = "LowerToSurface"
    /\ Acts[2].safe = Target(Acts[2])
    /\ Acts[7].kind = "MoveSafe"
    /\ Len(Kind("MoveSafe")) = tuft_segments

\* The value of the last set_digital_out line written before line n.
LastToolBefore(n) ==
    LET before == { i \in 1..(n - 1) : IsSetTool(Lines[i]) }
        last == CHOOSE i \in before : \A j \in before : j <= i
    IN  Lines[last].txt

SafeKinds == {"MoveSafe", "RetractToSafe", "Home"}

\* C17: the tool is commanded on only while at the surface.  Whenever a
\* MoveSafe, a RetractToSafe or the homing move is emitted, the tool's last
\* commanded state is off, in the planner's tool_active and in the script
\* written so far; and every SetTool(true) is emitted with a surface
\* position known, after the LowerToSurface and before the RetractToSafe of
\* one and the same segment, with only the surface move and tool commands
\* between those two.
C17_ToolOnOnlyAtSurface ==
    (pc = "segments" \/ Returned) =>
        \A i \in 1..Len(Acts) :
            /\ Acts[i].kind \in SafeKinds =>
                  /\ Acts[i].tool = FALSE
                  /\ LastToolBefore(Acts[i].line) = "False"
            /\ (Acts[i].kind = "SetTool" /\ Acts[i].on) =>
                  /\ Acts[i].surface[1] # None
                  /\ Acts[i].surface[2] # None
                  /\ Lines[Acts[i].line] = SetDigitalOut(S.tool_output, TRUE)
                  /\ \E l \in 1..(i - 1) : \E r \in (i + 1)..Len(Acts) :
                        /\ Acts[l].kind = "LowerToSurface"
                        /\ Acts[r].kind = "RetractToSafe"
                        /\ Acts[l].x = Acts[r].x
                        /\ \A m \in (l + 1)..(r - 1) :
                              Acts[m].kind \in {"SetTool", "MoveAtSurface"}

\* A returned program of two strokes: the tool was switched on twice, each
\* time between a descent and a retract, and safe-height moves came after.
C17_Witness ==
    /\ Returned
    /\ tuft_segments >= 2
    /\ Len(SelectSeq(Acts, LAMBDA a : a.kind = "SetTool" /\ a.on)) >= 2
    /\ Acts[9].kind = "SetTool" /\ Acts[9].on
    /\ Acts[12].kind = "RetractToSafe"

\* tuft_height_mm in the unit of the distance accumulators (0.1 mm).
TuftHeight == S.tuft_height_mm * 10

\* C18: the vertical distance is 2 x tuft_height_mm x the number of
\* segments.  In every state of the planner it is tuft_height_mm for each
\* LowerToSurface and each RetractToSafe made so far and nothing for any
\* other call (the first MoveSafe, the homing move, the tool commands), so
\* it is 2 x tuft_height_mm per finished stroke and, in a returned program,
\* 2 x tuft_height_mm x tuft_segments.
C18_VerticalDistance ==
    Planned =>
        /\ planner.vertical_distance_mm =
              TuftHeight * (Len(Kind("LowerToSurface"))
                              + Len(Kind("RetractToSafe")))
        /\ planner.vertical_distance_mm = 2 * TuftHeight * Done
        /\ Returned =>
              planner.vertical_distance_mm = 2 * TuftHeight * tuft_segments

\* A returned program of three strokes with a positive vertical distance,
\* homing move made.
C18_Witness ==
    /\ Returned
    /\ tuft_segments = 3
    /\ planner.vertical_distance_mm = 6 * TuftHeight
    /\ TuftHeight > 0
    /\ Acts[Len(Acts)].kind = "Home"

\* The length of the first n strokes of the plan in the unit of the distance
\* accumulators (0.1 mm): pixel_height_mm x (end - start) for each.
RECURSIVE TuftLength(_)
TuftLength(n) ==
    IF n = 0 THEN 0
    ELSE LET st == Strokes(column_plans)[n]
         IN  TuftLength(n - 1)
                 + (PixelHeight(S, Img) * (st[3] - st[2])) \div 100

\* C19: the tuft distance is the sum, over the segments, of the XY distance
\* between the segment's start and end point, pixel_height_mm x (end -
\* start) each.  It holds stroke by stroke while the planner runs and for
\* all strokes in a returned program; each stroke's share is the distance
\* between the points of its descent and its surface move; and between two
\* segments no surface position is kept, so the way from one segment's end
\* to the next one's start adds nothing.
C19_TuftDistance ==
    Planned =>
        LET lowers == Kind("LowerToSurface")
            moves == Kind("MoveAtSurface")
        IN  /\ planner.tuft_distance_mm = TuftLength(Done)
            /\ Returned => planner.tuft_distance_mm = TuftLength(tuft_segments)
            /\ \A k \in 1..Done :
                  Distance2D(lowers[k].x, lowers[k].y, moves[k].x, moves[k].y)
                      = TuftLength(k) - TuftLength(k - 1)
            /\ planner.last_surface_x = None
            /\ planner.last_surface_y = None

\* A returned program with two strokes in one column, a gap between them,
\* and a stroke longer than a pixel.
C19_Witness ==
    /\ Returned
    /\ tuft_segments >= 2
    /\ Len(column_plans[1][2]) >= 2
    /\ planner.tuft_distance_mm > 0
    /\ planner.tuft_distance_mm < planner.travel_distance_mm

\* The number of descents among the first i calls: the stroke call i
\* belongs to.
StrokeOf(i) ==
    Cardinality({ l \in 1..i : Acts[l].kind = "LowerToSurface" })

\* C20: every descent starts directly above its target.  When a
\* LowerToSurface(start) is emitted the planner's last known safe position
\* is start, and the script line before the descent is a movel to start at
\* safe height; when a MoveAtSurface(end) is emitted the last surface
\* position is defined and is the start point of the same segment, the
\* point of the descent made just before.
C20_DescentAboveTarget ==
    (pc = "segments" \/ Returned) =>
        \A i \in 1..Len(Acts) :
            /\ Acts[i].kind = "LowerToSurface" =>
                  /\ Acts[i].safe = Target(Acts[i])
                  /\ Target(Acts[i]) =
                        <<Some(StrokeX(Strokes(column_plans)[StrokeOf(i)])),
                          Some(StartY(Strokes(column_plans)[StrokeOf(i)]))>>
                  /\ Lines[Acts[i].line - 1] =
                        MoveL(4, Acts[i].x, Acts[i].y, SafeZ(S),
                              MOVE_ACCELERATION, TravelSpeed(S))
            /\ Acts[i].kind = "MoveAtSurface" =>
                  /\ Acts[i].surface[1] # None
                  /\ Acts[i].surface[2] # None
                  /\ Acts[i].surface =
                        <<Some(StrokeX(Strokes(column_plans)[StrokeOf(i)])),
                          Some(StartY(Strokes(column_plans)[StrokeOf(i)]))>>
                  /\ \E l \in 1..(i - 1) :
                        /\ Acts[l].kind = "LowerToSurface"
                        /\ Acts[i].surface = Target(Acts[l])
                        /\ \A m \in (l + 1)..(i - 1) :
                              Acts[m].kind = "SetTool"

\* A returned program of three strokes in two columns: the second and third
\* descent were each reached by a MoveSafe of their own.
C20_Witness ==
    /\ Returned
    /\ tuft_segments >= 3
    /\ Len(column_plans) >= 2
    /\ Acts[8].kind = "LowerToSurface"
    /\ Acts[8].safe # Acts[2].safe
    /\ Acts[16].kind = "MoveAtSurface"
    /\ Acts[16].surface # Acts[10].surface

\* The heights (in 1e-4 m counts) a call writes into the script: the one
\* pose's z for a move, the three z of the probe block for a descent.
HeightsOf(a) ==
    IF a.kind = "LowerToSurface"
    THEN { Lines[a.line + 1].args[1], Lines[a.line + 5].args[1],
           Lines[a.line + 6].args[3] }
    ELSE IF a.kind = "SetTool" THEN {}
    ELSE { Lines[a.line].args[3] }

SurfaceHeights ==
    UNION { HeightsOf(Acts[i]) :
              i \in { j \in 1..Len(Acts) :
                        Acts[j].kind \in {"LowerToSurface", "MoveAtSurface"} } }

SafeHeights ==
    UNION { HeightsOf(Acts[i]) :
              i \in { j \in 1..Len(Acts) : Acts[j].kind \in SafeKinds } }

\* C21: for every options value that passes the validation (tuft_height_mm
\* < safe_height_mm), the surface height of the probe block and of
\* MoveAtSurface is strictly lower than the safe height of MoveSafe,
\* RetractToSafe and the homing move, and is never negative: as derived
\* values, and as the heights written into a returned script.
C21_HeightOrdering ==
    /\ (settings # None /\ S.tuft_height_mm < S.safe_height_mm) =>
          /\ SurfaceZ(S) < SafeZ(S)
          /\ SurfaceZ(S) >= 0
    /\ (Returned /\ tuft_segments > 0) =>
          /\ \A zs \in SurfaceHeights : \A zf \in SafeHeights : zs < zf
          /\ \A zs \in SurfaceHeights : zs >= 0

\* What the validation does give: the surface height is never negative and
\* never above the safe height when tuft_height_mm is not negative, and
\* strictly below it when tuft_height_mm is positive, as the upload flow's
\* configuration makes it.
C21_OrderedWhenPositive ==
    /\ (settings # None /\ S.tuft_height_mm < S.safe_height_mm) =>
          /\ SurfaceZ(S) >= 0
          /\ S.tuft_height_mm >= 0 => SurfaceZ(S) <= SafeZ(S)
          /\ S.tuft_height_mm > 0 => SurfaceZ(S) < SafeZ(S)
    /\ (Returned /\ tuft_segments > 0 /\ S.tuft_height_mm > 0) =>
          /\ \A zs \in SurfaceHeights : \A zf \in SafeHeights : zs < zf
          /\ \A zs \in SurfaceHeights : zs >= 0
    /\ (caller = "upload" /\ settings # None) => S.tuft_height_mm > 0

\* A returned program with strokes whose options passed the validation with
\* tuft_height_mm = 0: descents and surface moves at the safe height.
C21_Witness ==
    /\ Returned
    /\ tuft_segments >= 2
    /\ S.tuft_height_mm = 0
    /\ S.tuft_height_mm < S.safe_height_mm
    /\ SurfaceHeights = SafeHeights

\* The call of send_program_to_robot is over.
SendOver == pc \in {"send_returned", "send_raised"}

\* The positions of a library call in the order of the calls made.
CallsOf(d, name) == { i \in 1..Len(d.sdk_calls) : d.sdk_calls[i] = name }

\* The script client was constructed: the import and the constructor went
\* through.
Constructed ==
    /\ config.enabled
    /\ rtde_script_client.import = "ok"
    /\ rtde_script_client.connect

\* C22: send_program_to_robot with a robot that is not enabled connects
\* nothing and sends nothing.  With a robot enabled and the script client
\* constructed, disconnect is called exactly once, as the last call and
\* after the send attempt, whether the send succeeded, the send raised or
\* no send method was found; an exception raised by disconnect is
\* swallowed and changes nothing of what the caller sees; without a
\* constructed client there is no disconnect; and every failure of the
\* construction or of sending reaches the caller as a
\* RobotCommunicationError.
C22_DisconnectOnce ==
    SendOver =>
        LET d == sent[1]
            sdk == rtde_script_client
            sending_ok == sdk.send_fn /\ sdk.send
        IN  /\ ~config.enabled =>
                  /\ d.sdk_calls = <<>>
                  /\ d.script = None
                  /\ d.disconnects = 0
                  /\ d.raised = ""
            /\ Constructed =>
                  /\ d.disconnects = 1
                  /\ CallsOf(d, "disconnect") = {Len(d.sdk_calls)}
                  /\ \A i \in CallsOf(d, "sendScript") \cup CallsOf(d, "getattr") :
                        i < Len(d.sdk_calls)
                  /\ CallsOf(d, "getattr") # {}
                  /\ Cardinality(CallsOf(d, "sendScript"))
                        = (IF sdk.send_fn THEN 1 ELSE 0)
                  /\ d.suppressed = ~sdk.disconnect
                  /\ d.raised = (IF sending_ok THEN ""
                                 ELSE "RobotCommunicationError")
                  /\ d.script = (IF sending_ok THEN Some(robot_program)
                                 ELSE None)
            /\ (config.enabled /\ ~Constructed) =>
                  /\ d.disconnects = 0
                  /\ CallsOf(d, "disconnect") = {}
                  /\ d.script = None
            /\ (config.enabled /\ sdk.import = "ok" /\ ~sdk.connect) =>
                  d.raised = "RobotCommunicationError"
            /\ (pc = "send_raised") = (d.raised # "")

\* A call whose send raised and whose disconnect raised as well: the caller
\* got the RobotCommunicationError, the client was disconnected once.
C22_Witness ==
    /\ pc = "send_raised"
    /\ Constructed
    /\ rtde_script_client.send_fn
    /\ ~rtde_script_client.send
    /\ ~rtde_script_client.disconnect
    /\ sent[1].suppressed
    /\ sent[1].disconnects = 1

====
